---- MODULE Spec2Model ----
(***************************************************************************)
(* Model of main.py: the Shopify "orders/create" webhook that creates a    *)
(* Stripe ACH payment link, writes it to the order note and mails it.      *)
(*                                                                         *)
(* Each request is handled by one invocation of shopify_webhook.  The      *)
(* handler is an `async def` whose only await is request.body(); every     *)
(* call after it (requests.get, stripe.PaymentLink.create, requests.put,   *)
(* smtplib) is synchronous and runs on the event loop, so a handler that   *)
(* has read its body keeps the loop until it returns.                      *)
(*                                                                         *)
(* Optional values (None / absent key) are sequences: <<>> is None and     *)
(* <<v>> is the value v.                                                   *)
(***************************************************************************)
EXTENDS Integers, Sequences, FiniteSets, TLC

\* ---------------------------------------------------------------- bounds
\* Number of handler slots (requests that can be in flight together).
MaxHandlers == 2
\* Number of payment links Stripe is asked to hold in one behaviour.
MaxLinks == 2

Handlers == 1..MaxHandlers

\* ------------------------------------------------------- configuration
\* The configured webhook secret, and a second key that is not the secret.
WebhookKey == "whsec"
OtherKey == "other-key"
\* os.getenv("MANUAL_PAYMENT_GATEWAY_NAME", "Pay via ACH")
MANUAL_PAYMENT_GATEWAY_NAME == "Pay via ACH"

\* ------------------------------------------------------------- payloads
OrderIds == {1, 2}

\* "id" of the JSON object: absent, 0 (falsy) or an order id.
IdFields == {<<>>, <<0>>} \cup {<<i>> : i \in OrderIds}

\* "payment_gateway_names": absent, a list of names, or a JSON number.
GatewayFields ==
    {[shape |-> "absent", items |-> <<>>],
     [shape |-> "list", items |-> <<>>],
     [shape |-> "list", items |-> <<MANUAL_PAYMENT_GATEWAY_NAME>>],
     [shape |-> "list", items |-> <<"card">>],
     [shape |-> "list", items |-> <<"card", MANUAL_PAYMENT_GATEWAY_NAME>>],
     [shape |-> "number", items |-> <<>>]}

\* "customer": absent, JSON null, or an object with an optional "email".
CustomerFields ==
    {[shape |-> "absent", email |-> <<>>],
     [shape |-> "null", email |-> <<>>],
     [shape |-> "object", email |-> <<>>],
     [shape |-> "object", email |-> <<"">>],
     [shape |-> "object", email |-> <<"a@x">>]}

NoGateways == [shape |-> "absent", items |-> <<>>]
NoCustomer == [shape |-> "absent", email |-> <<>>]

\* Request bodies: bytes that are not UTF-8, text that is not JSON, JSON
\* that is not an object (e.g. []), or a JSON object.
ObjectBodies ==
    [kind : {"object"}, id : IdFields, gateways : GatewayFields,
     customer : CustomerFields]
BrokenBodies ==
    [kind : {"badutf8", "badjson", "nonobject"}, id : {<<>>},
     gateways : {NoGateways}, customer : {NoCustomer}]
Bodies == ObjectBodies \cup BrokenBodies

\* A body other than the delivered one, over which a signature may have
\* been computed.
AltBody ==
    [kind |-> "object", id |-> <<2>>,
     gateways |-> [shape |-> "list", items |-> <<"card">>],
     customer |-> NoCustomer]
TamperedFrom(body) ==
    IF body = AltBody THEN [AltBody EXCEPT !.id = <<1>>] ELSE AltBody

\* hmac.new(key, data, sha256).digest(): an ideal MAC, injective in (key, data).
hmac_digest(key, data) == [key |-> key, data |-> data]
\* base64.b64encode(d).decode(): injective text encoding of a digest.
b64encode(digest) == [kind |-> "b64", digest |-> digest]

NoDigest == hmac_digest("", AltBody)
\* X-Shopify-Hmac-Sha256: absent, the empty string, a string that is not
\* ASCII (compare_digest raises TypeError), or base64 text of a digest.
HeaderAbsent == [kind |-> "absent", digest |-> NoDigest]
HeaderEmpty == [kind |-> "empty", digest |-> NoDigest]
HeaderNonAscii == [kind |-> "nonascii", digest |-> NoDigest]
HmacHeadersFor(body) ==
    {HeaderAbsent, HeaderEmpty, HeaderNonAscii}
    \cup {b64encode(hmac_digest(k, d)) :
            k \in {WebhookKey, OtherKey}, d \in {body, TamperedFrom(body)}}

\* X-Shopify-Topic: absent or a topic string.
Topics == {<<>>, <<"orders/create">>, <<"orders/paid">>}

Requests ==
    UNION {[body : {b}, hmac : HmacHeadersFor(b), topic : Topics] : b \in Bodies}

\* -------------------------------------------------------------- amounts
\* Decimal strings are held in thousandths: "0.29" is 290.
Amounts == {0 - 1000, 0, 4, 290, 1000}
NoAmount == [kind |-> "none", mills |-> 0]
Num(m) == [kind |-> "num", mills |-> m]
\* float() also accepts "nan" and "inf".
FloatValues == {Num(m) : m \in Amounts} \cup
               {[kind |-> "nan", mills |-> 0], [kind |-> "inf", mills |-> 0]}

\* Shape of the Shopify answer to GET orders/{id}.json.
OrderResponses ==
    {[kind |-> "error", primary |-> <<>>, fallback |-> <<>>],
     [kind |-> "noorder", primary |-> <<>>, fallback |-> <<>>]}
    \cup [kind : {"order"},
          primary : {<<>>} \cup {<<v>> : v \in FloatValues},
          fallback : {<<>>} \cup {<<v>> : v \in FloatValues}]

VARIABLES
    secret,      \* SHOPIFY_WEBHOOK_SECRET: <<>> unset, <<key>> set
    shopifyCfg,  \* SHOPIFY_STORE_URL and SHOPIFY_API_TOKEN are both set
    smtpCfg,     \* SMTP_USER and SMTP_PASSWORD are both set
    loop,        \* handler that is running on the event loop, 0 if none
    pc,          \* per handler: position in shopify_webhook
    req,         \* per handler: the request being handled
    amount,      \* per handler: amount_float
    cents,       \* per handler: amount_cents
    url,         \* per handler: payment_link_url (0 before creation)
    status,      \* per handler: status code of the response (0 before)
    calls,       \* per handler: external calls issued, in order
    links,       \* Stripe: the payment links created, url = index
    notes,       \* Shopify: order id -> url in the order note (0 if none)
    mails,       \* SMTP: the (order id, url) mails accepted for delivery
    \* The payment-completed endpoint (not in main.py):
    stripeSecret,  \* the processor's verification secret is configured
    ppc,           \* per handler: position in the completion handler
    pev,           \* per handler: the completion event being handled
    pstatus,       \* per handler: status code of the response (0 before)
    markPaidCalls, \* the "mark paid" calls made to the order system
    paid           \* order system: order id -> a settlement is recorded

vars == <<secret, shopifyCfg, smtpCfg, loop, pc, req, amount, cents, url,
          status, calls, links, notes, mails,
          stripeSecret, ppc, pev, pstatus, markPaidCalls, paid>>
payVars == <<stripeSecret, ppc, pev, pstatus, markPaidCalls, paid>>
cfgVars == <<secret, shopifyCfg, smtpCfg>>
extVars == <<links, notes, mails>>

NoRequest == [body |-> AltBody, hmac |-> HeaderAbsent, topic |-> <<>>]

\* A completion event: the processor's signature is valid or not, the event
\* type is the payment-completed one or another, the session metadata holds
\* the order id or not, and the settled amount is in minor units.
PaymentEvents ==
    [sig : {"valid", "invalid"}, type : {"completed", "other"},
     order : {<<>>} \cup {<<o>> : o \in OrderIds}, amount_total : {100}]
NoEvent == [sig |-> "invalid", type |-> "other", order |-> <<>>, amount_total |-> 100]

\* No completion event has been received.
PayIdle ==
    /\ ppc = [h \in Handlers |-> "idle"]
    /\ pev = [h \in Handlers |-> NoEvent]
    /\ pstatus = [h \in Handlers |-> 0]
    /\ markPaidCalls = {}
    /\ paid = [o \in OrderIds |-> FALSE]

Init ==
    /\ secret \in {<<>>, <<WebhookKey>>}
    /\ shopifyCfg \in BOOLEAN
    /\ smtpCfg \in BOOLEAN
    /\ stripeSecret = TRUE
    /\ PayIdle
    /\ loop = 0
    /\ pc = [h \in Handlers |-> "idle"]
    /\ req = [h \in Handlers |-> NoRequest]
    /\ amount = [h \in Handlers |-> NoAmount]
    /\ cents = [h \in Handlers |-> 0]
    /\ url = [h \in Handlers |-> 0]
    /\ status = [h \in Handlers |-> 0]
    /\ calls = [h \in Handlers |-> <<>>]
    /\ links = <<>>
    /\ notes = [o \in OrderIds |-> 0]
    /\ mails = {}


\* ------------------------------------------------------ pure functions
\* Variant: the digest is compared for its key only, not for the data.
verify_webhook_signature_KeyOnly(data, hmac_header, sec) ==
    IF hmac_header.kind \in {"absent", "empty"} THEN FALSE
    ELSE IF sec = <<>> THEN TRUE
    ELSE IF hmac_header.kind = "nonascii" THEN FALSE
    ELSE hmac_header.digest.key = sec[1]

\* Variant: the unset-secret fallback is tested before the missing header.
verify_webhook_signature_SecretFirst(data, hmac_header, sec) ==
    IF sec = <<>> THEN TRUE
    ELSE IF hmac_header.kind \in {"absent", "empty", "nonascii"} THEN FALSE
    ELSE b64encode(hmac_digest(sec[1], data)) = hmac_header

\* Variant: an unset secret rejects the request (fail closed).
verify_webhook_signature_FailClosed(data, hmac_header, sec) ==
    IF hmac_header.kind \in {"absent", "empty"} THEN FALSE
    ELSE IF sec = <<>> THEN FALSE
    ELSE IF hmac_header.kind = "nonascii" THEN FALSE
    ELSE b64encode(hmac_digest(sec[1], data)) = hmac_header

\* verify_webhook_signature (main.py 147-177) under secret `sec`.
verify_webhook_signature(data, hmac_header, sec) ==
    IF hmac_header.kind \in {"absent", "empty"} THEN FALSE
    ELSE IF sec = <<>> THEN TRUE
    ELSE IF hmac_header.kind = "nonascii" THEN FALSE
    ELSE b64encode(hmac_digest(sec[1], data)) = hmac_header

\* Step 3 of shopify_webhook (main.py 205-214): json.loads, data.get("id", 0),
\* data.get("payment_gateway_names", []) and its first element.  ok is FALSE
\* when the try block raises (either except branch answers 400).
ExtractData(body) ==
    IF body.kind # "object" \/ body.gateways.shape = "number"
    THEN [ok |-> FALSE, order_id |-> 0, gateway |-> <<>>]
    ELSE [ok |-> TRUE,
          order_id |-> IF body.id = <<>> THEN 0 ELSE body.id[1],
          gateway |-> IF Len(body.gateways.items) > 0
                      THEN <<body.gateways.items[1]>> ELSE <<>>]

\* main.py 218: x_shopify_topic != 'orders/create'
TopicIsOrdersCreate(topic) == topic = <<"orders/create">>

\* Variant: only the order id is required.
FieldsMissing_IdOnly(order_id, gateway) == order_id = 0

\* main.py 221: not order_id or not gateway
FieldsMissing(order_id, gateway) ==
    order_id = 0 \/ gateway = <<>> \/ gateway = <<"">>

\* Variant: any named gateway is taken for the manual one.
GatewayMatches_Any(gateway) == gateway # <<>>

\* main.py 227: gateway != MANUAL_PAYMENT_GATEWAY_NAME
GatewayMatches(gateway) == gateway = <<MANUAL_PAYMENT_GATEWAY_NAME>>

\* Variant: the required fields are validated before the topic is looked at.
EarlyResponse_FieldsFirst(r, sec) ==
    LET e == ExtractData(r.body) IN
    IF ~verify_webhook_signature(r.body, r.hmac, sec) THEN 401
    ELSE IF ~e.ok THEN 400
    ELSE IF FieldsMissing(e.order_id, e.gateway) THEN 400
    ELSE IF ~TopicIsOrdersCreate(r.topic) THEN 200
    ELSE IF ~GatewayMatches(e.gateway) THEN 200
    ELSE 0

\* Variant: an event with another topic is rejected as a bad request.
EarlyResponse_TopicRejected(r, sec) ==
    LET e == ExtractData(r.body) IN
    IF ~verify_webhook_signature(r.body, r.hmac, sec) THEN 401
    ELSE IF ~e.ok THEN 400
    ELSE IF ~TopicIsOrdersCreate(r.topic) THEN 400
    ELSE IF FieldsMissing(e.order_id, e.gateway) THEN 400
    ELSE IF ~GatewayMatches(e.gateway) THEN 200
    ELSE 0

\* Steps 2-5 of shopify_webhook (main.py 201-229): the status code of the
\* early return, or 0 when the handler goes on to step 6.
EarlyResponse(r, sec) ==
    LET e == ExtractData(r.body) IN
    IF ~verify_webhook_signature(r.body, r.hmac, sec) THEN 401
    ELSE IF ~e.ok THEN 400
    ELSE IF ~TopicIsOrdersCreate(r.topic) THEN 200
    ELSE IF FieldsMissing(e.order_id, e.gateway) THEN 400
    ELSE IF ~GatewayMatches(e.gateway) THEN 200
    ELSE 0

\* get_order_amount's value for a Shopify answer (main.py 61-80).
get_order_amount(resp) ==
    IF resp.kind # "order" THEN NoAmount
    ELSE IF resp.primary # <<>> THEN resp.primary[1]
    ELSE IF resp.fallback # <<>> THEN resp.fallback[1]
    ELSE NoAmount

\* Variant: a zero amount is let through (< instead of <=).
AmountRejected_ZeroAllowed(a) ==
    a.kind = "none" \/ (a.kind = "num" /\ a.mills < 0)

\* main.py 235: amount_float is None or amount_float <= 0
AmountRejected(a) ==
    a.kind = "none" \/ (a.kind = "num" /\ a.mills <= 0)

\* Hundredths h for which the double nearest to h/100, times 100, is below h.
LossyHundredths == {29, 57, 58, 113, 114, 115, 116}

\* main.py 238: int(amount_float * 100) for a positive finite amount.
AmountCents(a) ==
    IF a.mills % 10 = 0 /\ (a.mills \div 10) \in LossyHundredths
    THEN (a.mills \div 10) - 1
    ELSE a.mills \div 10

\* int() raises ValueError on nan and OverflowError on inf.
IntRaises(a) == a.kind \in {"nan", "inf"}

\* ------------------------------------------------------------- actions
Call(op, ok) == [op |-> op, ok |-> ok]
order_id(h) == ExtractData(req[h].body).order_id

\* The handler returns PlainTextResponse(..., status_code = code).
Return(h, code) ==
    /\ status' = [status EXCEPT ![h] = code]
    /\ pc' = [pc EXCEPT ![h] = "done"]
    /\ loop' = 0

\* A request reaches the endpoint; the handler starts and awaits
\* request.body() (main.py 198).
Deliver(h, rs) ==
    /\ pc[h] = "idle"
    /\ \A g \in Handlers : g < h => pc[g] # "idle"
    /\ Len(links) < MaxLinks
    /\ \E r \in rs : req' = [req EXCEPT ![h] = r]
    /\ pc' = [pc EXCEPT ![h] = "body"]
    /\ UNCHANGED <<cfgVars, payVars, extVars, loop, amount, cents, url, status, calls>>

\* The body has arrived: the handler runs steps 2-5 (main.py 201-229).
Begin(h) ==
    /\ pc[h] = "body"
    /\ loop = 0
    /\ LET code == EarlyResponse(req[h], secret) IN
         IF code # 0
         THEN Return(h, code)
         ELSE /\ pc' = [pc EXCEPT ![h] = "fetch"]
              /\ loop' = h
              /\ UNCHANGED status
    /\ UNCHANGED <<cfgVars, payVars, extVars, req, amount, cents, url, calls>>

\* Variant: only stripe.error.StripeError is caught; any other exception
\* leaves the handler and the framework answers 500.
ExceptStatus_OnlyStripe(exc) == IF exc = "StripeError" THEN 200 ELSE 500

\* Status returned by the except branch that catches an exception raised
\* inside the try block of step 6 (main.py 271-276).
ExceptStatus(exc) == IF exc = "StripeError" THEN 200 ELSE 200

\* After get_order_amount returned a (main.py 235-238).
AfterAmount(h, a) ==
    /\ amount' = [amount EXCEPT ![h] = a]
    /\ IF AmountRejected(a)
       THEN Return(h, 200) /\ UNCHANGED cents
       ELSE IF IntRaises(a)
       THEN Return(h, ExceptStatus("Exception")) /\ UNCHANGED cents
       ELSE /\ cents' = [cents EXCEPT ![h] = AmountCents(a)]
            /\ pc' = [pc EXCEPT ![h] = "create"]
            /\ UNCHANGED <<status, loop>>

\* Step 6, first half (main.py 233-238 with get_order_amount, 50-80).
GetOrderAmount(h, resps) ==
    /\ pc[h] = "fetch"
    /\ IF ~shopifyCfg
       THEN AfterAmount(h, NoAmount) /\ UNCHANGED calls
       ELSE \E resp \in resps :
              /\ calls' = [calls EXCEPT
                     ![h] = Append(@, Call("fetch", resp.kind # "error"))]
              /\ AfterAmount(h, get_order_amount(resp))
    /\ UNCHANGED <<cfgVars, payVars, extVars, req, url>>

\* Variant: a failed create is swallowed and the handler carries on.
AfterCreate_CarryOn(outcome) == "note"

\* Variant: a StripeError makes the handler call create again.
AfterCreate_Retry(outcome) ==
    IF outcome = "ok" THEN "note"
    ELSE IF outcome = "StripeError" THEN "create" ELSE "done"

\* Where the handler goes after stripe.PaymentLink.create (main.py 252,
\* 271-276): on to the note, or out through an except branch.
AfterCreate(outcome) == IF outcome = "ok" THEN "note" ELSE "done"

\* Variant: the metadata is filled from a fixed order id.
NewLink_FixedOrder(o, c) == [order |-> 1, unit_amount |-> c]

\* The payment link Stripe creates: metadata shopify_order_id and the
\* unit_amount of its one line item (main.py 241-249).
NewLink(o, c) == [order |-> o, unit_amount |-> c]

\* Variant: Stripe keeps a link also when the create call raised.
LinksAfterCreate_KeptOnError(ls, outcome, link) ==
    IF outcome \in {"ok", "Exception"} THEN Append(ls, link) ELSE ls

\* Stripe's links after a create call with the given outcome (main.py 240).
LinksAfterCreate(ls, outcome, link) ==
    IF outcome = "ok" THEN Append(ls, link) ELSE ls

\* Step 6, second half: stripe.PaymentLink.create (main.py 240-252).
CreateLink(h) ==
    /\ pc[h] = "create"
    /\ \E outcome \in {"ok", "StripeError", "Exception"} :
         /\ outcome = "ok" => Len(links) < MaxLinks
         /\ calls' = [calls EXCEPT ![h] = Append(@, Call("create", outcome = "ok"))]
         /\ links' = LinksAfterCreate(links, outcome,
                                       NewLink(order_id(h), cents[h]))
         /\ CASE AfterCreate(outcome) = "note" ->
                   /\ url' = [url EXCEPT ![h] = Len(links')]
                   /\ pc' = [pc EXCEPT ![h] = "note"]
                   /\ UNCHANGED <<status, loop>>
              [] AfterCreate(outcome) = "done" ->
                   Return(h, ExceptStatus(outcome)) /\ UNCHANGED url
              [] OTHER ->
                   /\ pc' = [pc EXCEPT ![h] = AfterCreate(outcome)]
                   /\ UNCHANGED <<status, loop, url>>
    /\ UNCHANGED <<cfgVars, payVars, notes, mails, req, amount, cents>>

\* Variant: a failed note update is reported as a server error.
NoteResponse_Error(updated) == IF updated THEN 200 ELSE 500

\* Status of the response after update_shopify_order_note returned
\* `updated` (main.py 267 and 269).
NoteResponse(updated) == IF updated THEN 200 ELSE 200

\* Step 7: update_shopify_order_note (main.py 255-264 with 125-145), then
\* the customer lookup.
UpdateNote(h) ==
    /\ pc[h] = "note"
    /\ IF ~shopifyCfg
       THEN Return(h, NoteResponse(FALSE)) /\ UNCHANGED <<calls, notes>>
       ELSE \E outcome \in {"ok", "RequestException", "Exception"} :
              /\ calls' = [calls EXCEPT ![h] = Append(@, Call("note", outcome = "ok"))]
              /\ notes' = IF outcome = "ok"
                          THEN [notes EXCEPT ![order_id(h)] = url[h]]
                          ELSE notes
              /\ CASE outcome = "RequestException" -> Return(h, NoteResponse(FALSE))
                   [] outcome = "Exception" -> Return(h, ExceptStatus("Exception"))
                   [] outcome = "ok" ->
                        LET customer == req[h].body.customer IN
                        IF customer.shape = "null"
                        THEN Return(h, ExceptStatus("Exception"))
                        ELSE IF customer.email \in {<<>>, <<"">>}
                             THEN Return(h, NoteResponse(TRUE))
                        ELSE /\ pc' = [pc EXCEPT ![h] = "email"]
                             /\ UNCHANGED <<status, loop>>
    /\ UNCHANGED <<cfgVars, payVars, links, mails, req, amount, cents, url>>

\* send_payment_email (main.py 265-267 with 82-123).
SendEmail(h) ==
    /\ pc[h] = "email"
    /\ IF ~smtpCfg
       THEN UNCHANGED <<calls, mails>>
       ELSE \E ok \in BOOLEAN :
              /\ calls' = [calls EXCEPT ![h] = Append(@, Call("email", ok))]
              /\ mails' = IF ok THEN mails \cup {<<order_id(h), url[h]>>}
                          ELSE mails
    /\ Return(h, NoteResponse(TRUE))
    /\ UNCHANGED <<cfgVars, payVars, links, notes, req, amount, cents, url>>

\* The response has been sent; the slot is free for the next request.
Respond(h) ==
    /\ pc[h] = "done"
    /\ pc' = [pc EXCEPT ![h] = "idle"]
    /\ req' = [req EXCEPT ![h] = NoRequest]
    /\ amount' = [amount EXCEPT ![h] = NoAmount]
    /\ cents' = [cents EXCEPT ![h] = 0]
    /\ url' = [url EXCEPT ![h] = 0]
    /\ status' = [status EXCEPT ![h] = 0]
    /\ calls' = [calls EXCEPT ![h] = <<>>]
    /\ UNCHANGED <<cfgVars, payVars, extVars, loop>>

\* One request at a time, any request.
Next ==
    \/ Deliver(1, Requests)
    \/ Begin(1)
    \/ GetOrderAmount(1, OrderResponses)
    \/ CreateLink(1)
    \/ UpdateNote(1)
    \/ SendEmail(1)
    \/ Respond(1)

Spec == Init /\ [][Next]_vars


\* Well-formed, correctly signed orders/create events for the manual gateway.
OrderCreatedRequests ==
    {r \in Requests :
        /\ r.body.kind = "object"
        /\ r.body.id \in {<<i>> : i \in OrderIds}
        /\ r.body.gateways.items = <<MANUAL_PAYMENT_GATEWAY_NAME>>
        /\ r.body.customer \in {NoCustomer, [shape |-> "object", email |-> <<"a@x">>]}
        /\ r.hmac = b64encode(hmac_digest(WebhookKey, r.body))
        /\ r.topic = <<"orders/create">>}

\* Shopify answers in which the order is missing, or is priced 1.00 in
\* the primary or in the fallback field.
PricedResponses ==
    {resp \in OrderResponses :
        \/ resp.kind = "error"
        \/ /\ resp.kind = "order"
           /\ {resp.primary, resp.fallback} = {<<>>, <<Num(1000)>>}}

\* A fully configured deployment.
InitConc == Init /\ secret = <<WebhookKey>> /\ shopifyCfg /\ smtpCfg

\* MaxHandlers order-created deliveries in flight together, each handler
\* slot serving one of them.
NextConc ==
    \E h \in Handlers :
        \/ Deliver(h, OrderCreatedRequests)
        \/ Begin(h)
        \/ GetOrderAmount(h, PricedResponses)
        \/ CreateLink(h)
        \/ UpdateNote(h)
        \/ SendEmail(h)

SpecConc == InitConc /\ [][NextConc]_vars


\* ------------------------------------- the payment-completed endpoint
\* Variant: an event without a correlation id is reconciled all the same.
PayOutcome_NoIdCheck(ev, configured) ==
    IF ~configured THEN "500"
    ELSE IF ev.sig # "valid" THEN "400"
    ELSE IF ev.type # "completed" THEN "ignored"
    ELSE "reconcile"

\* RECEIVED -> AUTHENTICATED -> EXTRACTED: 500 when the verification secret
\* is not configured, 400 when the signature is invalid, otherwise 200; an
\* event of another type is acknowledged, a completion without a correlation
\* id is aborted and acknowledged, any other completion is reconciled.
PayOutcome(ev, configured) ==
    IF ~configured THEN "500"
    ELSE IF ev.sig # "valid" THEN "400"
    ELSE IF ev.type # "completed" THEN "ignored"
    ELSE IF ev.order = <<>> THEN "aborted"
    ELSE "reconcile"

PayReturn(h, code) ==
    /\ pstatus' = [pstatus EXCEPT ![h] = code]
    /\ ppc' = [ppc EXCEPT ![h] = "done"]

\* A completion event reaches the endpoint.
PayDeliver(h) ==
    /\ ppc[h] = "idle"
    /\ \A g \in Handlers : g < h => ppc[g] # "idle"
    /\ \E ev \in PaymentEvents : pev' = [pev EXCEPT ![h] = ev]
    /\ ppc' = [ppc EXCEPT ![h] = "received"]
    /\ UNCHANGED <<cfgVars, extVars, loop, pc, req, amount, cents, url,
                   status, calls, stripeSecret, pstatus, markPaidCalls, paid>>

\* Authentication and extraction.
PayExtract(h) ==
    /\ ppc[h] = "received"
    /\ LET out == PayOutcome(pev[h], stripeSecret) IN
         CASE out = "500" -> PayReturn(h, 500)
           [] out = "400" -> PayReturn(h, 400)
           [] out \in {"ignored", "aborted"} -> PayReturn(h, 200)
           [] out = "reconcile" ->
                /\ ppc' = [ppc EXCEPT ![h] = "reconcile"]
                /\ UNCHANGED pstatus
    /\ UNCHANGED <<cfgVars, extVars, loop, pc, req, amount, cents, url,
                   status, calls, stripeSecret, pev, markPaidCalls, paid>>

\* RECONCILED: markPaid(orderRef, amount).  The order system may reject the
\* call (for instance because the order is already settled); the failure is
\* logged and the event is acknowledged all the same.
PayReconcile(h) ==
    /\ ppc[h] = "reconcile"
    /\ \E ok \in BOOLEAN :
         /\ markPaidCalls' = markPaidCalls \cup
               {[by |-> h, order |-> pev[h].order,
                 amount |-> pev[h].amount_total, ok |-> ok]}
         /\ paid' = IF ok /\ pev[h].order # <<>>
                    THEN [paid EXCEPT ![pev[h].order[1]] = TRUE]
                    ELSE paid
    /\ PayReturn(h, 200)
    /\ UNCHANGED <<cfgVars, extVars, loop, pc, req, amount, cents, url,
                   status, calls, stripeSecret, pev>>

\* Nothing of the order-created endpoint is in progress.
OrdersIdle ==
    /\ loop = 0
    /\ pc = [h \in Handlers |-> "idle"]
    /\ req = [h \in Handlers |-> NoRequest]
    /\ amount = [h \in Handlers |-> NoAmount]
    /\ cents = [h \in Handlers |-> 0]
    /\ url = [h \in Handlers |-> 0]
    /\ status = [h \in Handlers |-> 0]
    /\ calls = [h \in Handlers |-> <<>>]
    /\ links = <<>>
    /\ notes = [o \in OrderIds |-> 0]
    /\ mails = {}

InitPay ==
    /\ secret = <<WebhookKey>> /\ shopifyCfg = TRUE /\ smtpCfg = TRUE
    /\ stripeSecret \in BOOLEAN
    /\ PayIdle
    /\ OrdersIdle

\* MaxHandlers completion events, each handled to its response.
NextPay ==
    \E h \in Handlers :
        \/ PayDeliver(h)
        \/ PayExtract(h)
        \/ PayReconcile(h)

\* A completion handler that has received its event runs to its response.
SpecPay ==
    /\ InitPay /\ [][NextPay]_vars
    /\ \A h \in Handlers : WF_vars(PayExtract(h)) /\ WF_vars(PayReconcile(h))

\* ----------------------------------------------------------- properties
\* Vocabulary of the properties, stated on the request and on what the
\* handler did, not through the operators above.
Done(h) == pc[h] = "done"
Made(h, op) == \E i \in DOMAIN calls[h] : calls[h][i].op = op
Failed(h, op) == \E i \in DOMAIN calls[h] : calls[h][i] = Call(op, FALSE)
Succeeded(h, op) == \E i \in DOMAIN calls[h] : calls[h][i] = Call(op, TRUE)
NoDownstreamCall(h) == calls[h] = <<>>
\* The supplied signature is the base64 HMAC of the delivered body under key.
SignedWith(r, key) == r.hmac = b64encode(hmac_digest(key, r.body))
HeaderPresent(r) == r.hmac.kind \notin {"absent", "empty"}
\* The event passed signature verification.
Authenticated(r) ==
    /\ HeaderPresent(r)
    /\ secret = <<>> \/ SignedWith(r, secret[1])
\* Step 3 completes: the body is a JSON object whose payment_gateway_names,
\* if any, is a list.
Parses(r) == r.body.kind = "object" /\ r.body.gateways.shape # "number"
IsOrderCreated(r) == r.topic = <<"orders/create">>
HasOrderId(r) == r.body.id \in {<<i>> : i \in OrderIds}
HasGateway(r) == Len(r.body.gateways.items) > 0
FirstGateway(r) == r.body.gateways.items[1]
\* The event reaches step 6 (amount resolution).
ForManualGateway(r) ==
    /\ Authenticated(r) /\ Parses(r) /\ IsOrderCreated(r)
    /\ HasOrderId(r) /\ HasGateway(r)
    /\ FirstGateway(r) = MANUAL_PAYMENT_GATEWAY_NAME
LinksOf(o) == {i \in DOMAIN links : links[i].order = o}

\* C1: when the order-created event for an order R is in flight several times
\* together, at most one stripe.PaymentLink.create call is made for R and all
\* handlings that have a link use the same URL.
C1_OneCreateCallSameUrl ==
    \A h1, h2 \in Handlers :
        (h1 # h2 /\ pc[h1] # "idle" /\ pc[h2] # "idle"
           /\ ForManualGateway(req[h1]) /\ ForManualGateway(req[h2])
           /\ req[h1].body.id = req[h2].body.id)
        => /\ ~(Made(h1, "create") /\ Made(h2, "create"))
           /\ (url[h1] # 0 /\ url[h2] # 0) => url[h1] = url[h2]

\* C2: after any sequence of order-created deliveries, at most one payment
\* link has been created for any one order.
C2_AtMostOneLinkPerOrder ==
    \A o \in OrderIds : Cardinality(LinksOf(o)) <= 1

\* C3: with a secret configured, a request whose signature is not the base64
\* HMAC-SHA256 of the delivered body under that secret is answered 401 and
\* no downstream call is made.
C3_BadSignatureRejected ==
    \A h \in Handlers :
        (Done(h) /\ secret # <<>> /\ ~SignedWith(req[h], secret[1]))
        => status[h] = 401 /\ NoDownstreamCall(h)
C3_Witness ==
    \E h \in Handlers :
        /\ Done(h) /\ secret = <<WebhookKey>> /\ status[h] = 401
        /\ req[h].hmac = b64encode(hmac_digest(WebhookKey, TamperedFrom(req[h].body)))
        /\ ForManualGateway([req[h] EXCEPT !.hmac = b64encode(hmac_digest(WebhookKey, req[h].body))])

\* C4: a request without the signature header is answered 401 with no
\* downstream call, whether or not the secret is configured.
C4_MissingHeaderRejected ==
    \A h \in Handlers :
        (Done(h) /\ req[h].hmac.kind = "absent")
        => status[h] = 401 /\ NoDownstreamCall(h)
C4_Witness ==
    \E h \in Handlers :
        /\ Done(h) /\ req[h].hmac.kind = "absent" /\ secret = <<>>
        /\ status[h] = 401
        /\ Parses(req[h]) /\ IsOrderCreated(req[h]) /\ HasOrderId(req[h])
        /\ HasGateway(req[h]) /\ FirstGateway(req[h]) = MANUAL_PAYMENT_GATEWAY_NAME

\* C5: an authenticated order-created event (topic orders/create, carrying an
\* order id) whose first payment-method name differs from the configured
\* gateway name is answered 200 and makes no downstream call.
C5_OtherGatewayIgnored ==
    \A h \in Handlers :
        (Done(h) /\ Authenticated(req[h]) /\ Parses(req[h])
           /\ IsOrderCreated(req[h]) /\ HasOrderId(req[h]) /\ HasGateway(req[h])
           /\ FirstGateway(req[h]) # MANUAL_PAYMENT_GATEWAY_NAME)
        => status[h] = 200 /\ NoDownstreamCall(h)
C5_Witness ==
    \E h \in Handlers :
        /\ Done(h) /\ Authenticated(req[h]) /\ Parses(req[h])
        /\ IsOrderCreated(req[h]) /\ HasOrderId(req[h])
        /\ req[h].body.gateways.items = <<"card", MANUAL_PAYMENT_GATEWAY_NAME>>
        /\ shopifyCfg /\ status[h] = 200

\* C6: an authenticated event whose body parses and whose topic is not
\* orders/create (or is absent) is answered 200 and makes no downstream call,
\* also when the payload has no order id or no payment-method name.
C6_OtherTopicIgnored ==
    \A h \in Handlers :
        (Done(h) /\ Authenticated(req[h]) /\ Parses(req[h])
           /\ ~IsOrderCreated(req[h]))
        => status[h] = 200 /\ NoDownstreamCall(h)
C6_Witness ==
    \E h \in Handlers :
        /\ Done(h) /\ Authenticated(req[h]) /\ Parses(req[h])
        /\ req[h].topic = <<>> /\ ~HasOrderId(req[h]) /\ ~HasGateway(req[h])
        /\ status[h] = 200

\* C7: the response is 400 exactly when the event is authenticated and either
\* the body does not parse, or the topic is orders/create and the order id or
\* the payment-method name is missing; a 400 comes with no downstream call.
C7_BadRequestExactly ==
    \A h \in Handlers :
        Done(h) =>
          /\ status[h] = 400 <=>
               /\ Authenticated(req[h])
               /\ \/ ~Parses(req[h])
                  \/ /\ IsOrderCreated(req[h])
                     /\ ~HasOrderId(req[h]) \/ ~HasGateway(req[h])
          /\ status[h] = 400 => NoDownstreamCall(h)
C7_Witness ==
    \E h \in Handlers :
        /\ Done(h) /\ status[h] = 400 /\ Authenticated(req[h]) /\ Parses(req[h])
        /\ IsOrderCreated(req[h]) /\ HasOrderId(req[h]) /\ ~HasGateway(req[h])

\* C8: when amount resolution for an authenticated, gateway-matching
\* order-created event gives no amount, an upstream error or an amount that
\* is not strictly positive, the response is 200 and no link is created, no
\* note written and no email sent; a create call is only ever made with a
\* strictly positive amount.
NotPositive(a) == a.kind \in {"none", "nan"} \/ (a.kind = "num" /\ a.mills <= 0)
C8_NoLinkWithoutPositiveAmount ==
    \A h \in Handlers :
        /\ (Done(h) /\ ForManualGateway(req[h]) /\ NotPositive(amount[h]))
           => /\ status[h] = 200
              /\ ~Made(h, "create") /\ ~Made(h, "note") /\ ~Made(h, "email")
        /\ Made(h, "create") => (amount[h].kind = "num" /\ amount[h].mills > 0)
C8_Witness ==
    \E h \in Handlers :
        /\ Done(h) /\ ForManualGateway(req[h]) /\ Succeeded(h, "fetch")
        /\ amount[h] = Num(0) /\ status[h] = 200

\* C9: when the link was created but the order-note update fails, the response
\* is 200 and the link is still held by the processor, for that order.
C9_NoteFailureKeepsLink ==
    \A h \in Handlers :
        (Done(h) /\ Succeeded(h, "create") /\ Failed(h, "note"))
        => /\ status[h] = 200
           /\ url[h] \in DOMAIN links
           /\ links[url[h]].order = req[h].body.id[1]
C9_Witness ==
    \E h \in Handlers :
        /\ Done(h) /\ Succeeded(h, "create") /\ Failed(h, "note")
        /\ status[h] = 200 /\ url[h] \in DOMAIN links

\* C10: when stripe.PaymentLink.create fails, the response is 200 and neither
\* a note update nor an email send is made for that event.
C10_CreateFailureStops ==
    \A h \in Handlers :
        Failed(h, "create")
        => /\ ~Made(h, "note") /\ ~Made(h, "email")
           /\ Done(h) /\ status[h] = 200
C10_Witness ==
    \E h \in Handlers :
        /\ Done(h) /\ Failed(h, "create") /\ status[h] = 200
        /\ req[h].body.customer.email = <<"a@x">> /\ smtpCfg

\* C11: whatever the order fetch, the create call, the note update and the
\* email send do (error result or raised exception), a handling ends with one
\* response whose status is 200, 400 or 401: the status is set exactly when
\* the handler returns, and never to anything else.
C11_DefinedResponse ==
    \A h \in Handlers :
        /\ pc[h] \in {"idle", "body", "fetch", "create", "note", "email", "done"}
        /\ Done(h) => status[h] \in {200, 400, 401}
        /\ ~Done(h) => status[h] = 0
C11_Witness ==
    \E h \in Handlers :
        /\ Done(h) /\ status[h] = 200
        /\ Succeeded(h, "note") /\ req[h].body.customer.shape = "null"

\* C12 as stated: every event that passes signature verification is answered
\* 200.
C12_AuthenticatedAlways200 ==
    \A h \in Handlers :
        (Done(h) /\ Authenticated(req[h])) => status[h] = 200

\* C12 as amended: 401 is answered exactly when signature verification fails;
\* an event that passes it is answered 200, except that it is answered 400
\* when the body does not parse or, with topic orders/create, the order id or
\* the payment-method name is missing.
C12_OnlyAuthFailureIs401 ==
    \A h \in Handlers :
        Done(h) =>
          /\ status[h] = 401 <=> ~Authenticated(req[h])
          /\ Authenticated(req[h]) =>
               status[h] = (IF \/ ~Parses(req[h])
                               \/ /\ IsOrderCreated(req[h])
                                  /\ ~HasOrderId(req[h]) \/ ~HasGateway(req[h])
                            THEN 400 ELSE 200)
C12_Witness ==
    \E h \in Handlers :
        /\ Done(h) /\ Authenticated(req[h]) /\ status[h] = 400
        /\ req[h].body.kind = "badjson"

\* C14: for every resolved amount with at most two fractional digits, the
\* unit amount handed to the processor is exactly 100 times the amount.
C14_ExactMinorUnits ==
    \A h \in Handlers :
        (/\ pc[h] \in {"create", "note", "email"} \/ Made(h, "create")
         /\ amount[h].kind = "num" /\ amount[h].mills % 10 = 0)
        => cents[h] * 10 = amount[h].mills

C16_EmailWhateverTheNote ==
    \A h \in Handlers :
        (Done(h) /\ Succeeded(h, "create") /\ Made(h, "note") /\ smtpCfg
           /\ req[h].body.customer.email = <<"a@x">>)
        => Made(h, "email") /\ status[h] = 200

\* C18: one handling issues at most one order fetch, one create call, one
\* note update and one email send, in that order; no call is repeated, also
\* not after it failed.
CallOrder == <<"fetch", "create", "note", "email">>
C18_NoRetry ==
    \A h \in Handlers :
        \A i \in DOMAIN calls[h] :
            i <= Len(CallOrder) /\ calls[h][i].op = CallOrder[i]
C18_Witness ==
    \E h \in Handlers :
        /\ Done(h) /\ Len(calls[h]) = 4 /\ Failed(h, "email")

\* C17: while a handling for one order is inside an external call (which may
\* never return), a handling for a different order whose body has arrived
\* can still start to be processed.
InExternalCall(h) == pc[h] \in {"fetch", "create", "note", "email"}
C17_OtherOrdersNotBlocked ==
    \A h1, h2 \in Handlers :
        (h1 # h2 /\ InExternalCall(h1) /\ pc[h2] = "body"
           /\ req[h1].body.id # req[h2].body.id)
        => ENABLED Begin(h2)

C20_NotesAndMailsMatchLinks ==
    /\ \A i \in DOMAIN links :
         \E h \in Handlers : url[h] = i /\ links[i].order = order_id(h)
    /\ \A o \in OrderIds :
         notes[o] # 0 =>
           \E h \in Handlers :
              /\ Succeeded(h, "note") /\ order_id(h) = o /\ url[h] = notes[o]
              /\ notes[o] \in DOMAIN links /\ links[notes[o]].order = o
    /\ \A m \in mails :
         \E h \in Handlers :
            /\ Succeeded(h, "email") /\ order_id(h) = m[1] /\ url[h] = m[2]
            /\ m[2] \in DOMAIN links /\ links[m[2]].order = m[1]
    /\ \A h \in Handlers :
         Made(h, "note") =>
           /\ Len(calls[h]) >= 3 /\ calls[h][2] = Call("create", TRUE)
           /\ calls[h][3].op = "note"
C20_Witness ==
    \E h1, h2 \in Handlers :
        /\ order_id(h1) = 1 /\ order_id(h2) = 2
        /\ notes[1] = url[h1] /\ notes[2] = url[h2]
        /\ url[h1] # 0 /\ url[h2] # 0
        /\ <<2, url[h2]>> \in mails

\* C13: an authenticated payment-completed event that carries a correlation
\* id leads to a markPaid call for that order with the settled amount; one
\* without a correlation id causes no markPaid call and is acknowledged; a
\* duplicate completion is acknowledged too, also when the order system
\* rejects its markPaid call.
PayAuthentic(h) == stripeSecret /\ pev[h].sig = "valid"
IsCompletion(h) == pev[h].type = "completed"
MarkPaidBy(h) == {c \in markPaidCalls : c.by = h}
C13_CompletionReconciled ==
    /\ [](\A h \in Handlers :
            /\ (ppc[h] = "done" /\ PayAuthentic(h)) => pstatus[h] = 200
            /\ (PayAuthentic(h) /\ IsCompletion(h) /\ pev[h].order = <<>>)
               => MarkPaidBy(h) = {}
            /\ \A c \in MarkPaidBy(h) :
                  /\ PayAuthentic(h) /\ IsCompletion(h)
                  /\ c.order = pev[h].order /\ c.amount = pev[h].amount_total)
    /\ \A h \in Handlers :
         (ppc[h] = "received" /\ PayAuthentic(h) /\ IsCompletion(h)
            /\ pev[h].order # <<>>)
         ~> (ppc[h] = "done" /\ pstatus[h] = 200 /\ MarkPaidBy(h) # {})
C13_Witness ==
    \E h1, h2 \in Handlers :
        /\ h1 # h2 /\ pev[h1] = pev[h2]
        /\ ppc[h1] = "done" /\ ppc[h2] = "done"
        /\ pstatus[h1] = 200 /\ pstatus[h2] = 200
        /\ \E c \in MarkPaidBy(h1) : c.ok
        /\ \E c \in MarkPaidBy(h2) : ~c.ok

====
